---- MODULE Spec2Model ----
(***************************************************************************)
(* Stroke-risk tracking application: the rule-based risk scorer            *)
(* (backend/api/patients/routes.py), the risk-level classifier and the     *)
(* batch recomputation sweep (ml_model/update_data.py) over the patients   *)
(* collection.                                                             *)
(*                                                                         *)
(* Python values are tagged records: a number is [t |-> "num", v |-> n],   *)
(* a string [t |-> "str", s |-> x], None is [t |-> "none"], and a key that *)
(* is not in a dictionary is [t |-> "absent"].  Real-valued attributes     *)
(* (age, avg_glucose_level, bmi) are drawn from integers on both sides of  *)
(* every threshold.  A call that raises returns Raise instead of Ret(n).   *)
(***************************************************************************)
EXTENDS Integers, Sequences, FiniteSets, TLC

\* ------------------------------------------------------------------ values
Num(n) == [t |-> "num", v |-> n]
NoneNum == [t |-> "none", v |-> 0]
AbsentNum == [t |-> "absent", v |-> 0]
Str(x) == [t |-> "str", s |-> x]
NoneStr == [t |-> "none", s |-> ""]
AbsentStr == [t |-> "absent", s |-> ""]

Ret(n) == [ok |-> TRUE, val |-> n]
Raise == [ok |-> FALSE, val |-> 0]

\* dict.get(key, default): the default replaces an absent key only, a key
\* stored with the value None is returned as None
Get(d, key, default) == IF d[key].t = "absent" THEN default ELSE d[key]

\* dict.get(key): an absent key reads as None
GetOrNone(d, key) == IF d[key].t = "absent" THEN [d[key] EXCEPT !.t = "none"] ELSE d[key]

IsNone(x) == x.t = "none"

min(a, b) == IF a <= b THEN a ELSE b

\* ------------------------------------------------- input domains (bounded)
AgeValues == {-1, 25, 49, 50, 55, 59, 60, 69, 70, 80}
FlagValues == {0, 1}
GlucoseValues == {90, 140, 141, 150, 200, 201, 300}
BmiValues == {22, 24, 25, 28, 29, 30, 40}
SmokingValues == {"never smoked", "formerly smoked", "smokes", "Unknown"}
GenderValues == {"Male", "Female"}

NumField(S) == {Num(n) : n \in S} \cup {NoneNum, AbsentNum}
StrField(S) == {Str(x) : x \in S} \cup {NoneStr, AbsentStr}

PatientData ==
    [age : NumField(AgeValues),
     hypertension : NumField(FlagValues),
     heart_disease : NumField(FlagValues),
     avg_glucose_level : NumField(GlucoseValues),
     bmi : NumField(BmiValues),
     smoking_status : StrField(SmokingValues),
     gender : StrField(GenderValues)]

ScoringFields ==
    {"age", "hypertension", "heart_disease", "avg_glucose_level", "bmi",
     "smoking_status", "gender"}

\* every scoring field carries a value (neither None nor absent)
Complete(d) == \A f \in ScoringFields : d[f].t \in {"num", "str"}

\* --------------------------------------------------- calculate_risk_score
\* an ordering comparison of None with a number raises TypeError
AgePoints_strict(age) ==
    IF age.v > 70 THEN 30
    ELSE IF age.v > 60 THEN 20
    ELSE IF age.v > 50 THEN 10
    ELSE 0

AgePoints_dip(age) ==
    IF age.v >= 70 THEN 30
    ELSE IF age.v >= 60 THEN 5
    ELSE IF age.v >= 50 THEN 10
    ELSE 0

AgePoints(age) ==
    IF age.v >= 70 THEN 30
    ELSE IF age.v >= 60 THEN 20
    ELSE IF age.v >= 50 THEN 10
    ELSE 0

FlagPoints(x) == IF x.t = "num" /\ x.v = 1 THEN 15 ELSE 0

GlucosePoints(glucose) ==
    IF glucose.v > 200 THEN 20
    ELSE IF glucose.v > 140 THEN 10
    ELSE 0

BmiPoints(bmi) ==
    IF bmi.v >= 30 THEN 15
    ELSE IF bmi.v >= 25 THEN 5
    ELSE 0

SmokingPoints(smoking) ==
    IF smoking.t = "str" /\ smoking.s = "smokes" THEN 20
    ELSE IF smoking.t = "str" /\ smoking.s = "formerly smoked" THEN 10
    ELSE 0

GenderPoints(gender) == IF gender.t = "str" /\ gender.s = "Male" THEN 5 ELSE 0

\* the sum accumulated in risk_score before the final min
FactorSum(patient_data) ==
    AgePoints(Get(patient_data, "age", Num(0)))
    + FlagPoints(patient_data.hypertension)
    + FlagPoints(patient_data.heart_disease)
    + GlucosePoints(Get(patient_data, "avg_glucose_level", Num(0)))
    + BmiPoints(Get(patient_data, "bmi", Num(0)))
    + SmokingPoints(Get(patient_data, "smoking_status", Str("")))
    + GenderPoints(patient_data.gender)

calculate_risk_score_unclamped(patient_data) ==
    IF \/ IsNone(Get(patient_data, "age", Num(0)))
       \/ IsNone(Get(patient_data, "avg_glucose_level", Num(0)))
       \/ IsNone(Get(patient_data, "bmi", Num(0)))
    THEN Raise
    ELSE Ret(FactorSum(patient_data))

calculate_risk_score(patient_data) ==
    IF \/ IsNone(Get(patient_data, "age", Num(0)))
       \/ IsNone(Get(patient_data, "avg_glucose_level", Num(0)))
       \/ IsNone(Get(patient_data, "bmi", Num(0)))
    THEN Raise
    ELSE Ret(min(FactorSum(patient_data), 100))

\* ------------------------------------- the point table of the scoring rule
\* each bucket is stated by its own range; a field without a value scores 0
TableAge(x) ==
    IF x.t # "num" THEN 0
    ELSE (IF x.v >= 70 THEN 30 ELSE 0)
         + (IF x.v >= 60 /\ x.v < 70 THEN 20 ELSE 0)
         + (IF x.v >= 50 /\ x.v < 60 THEN 10 ELSE 0)

TableFlag(x) == IF x.t = "num" /\ x.v = 1 THEN 15 ELSE 0

TableGlucose(x) ==
    IF x.t # "num" THEN 0
    ELSE (IF x.v > 200 THEN 20 ELSE 0)
         + (IF x.v > 140 /\ x.v <= 200 THEN 10 ELSE 0)

TableBmi(x) ==
    IF x.t # "num" THEN 0
    ELSE (IF x.v >= 30 THEN 15 ELSE 0)
         + (IF x.v >= 25 /\ x.v < 30 THEN 5 ELSE 0)

TableSmoking(x) ==
    IF x.t # "str" THEN 0
    ELSE (IF x.s = "smokes" THEN 20 ELSE 0)
         + (IF x.s = "formerly smoked" THEN 10 ELSE 0)

TableGender(x) == IF x.t = "str" /\ x.s = "Male" THEN 5 ELSE 0

TableSum(age, hypertension, heart_disease, avg_glucose_level, bmi, smoking_status, gender) ==
    TableAge(age) + TableFlag(hypertension) + TableFlag(heart_disease)
    + TableGlucose(avg_glucose_level) + TableBmi(bmi)
    + TableSmoking(smoking_status) + TableGender(gender)

TableSumOf(d) ==
    TableSum(d.age, d.hypertension, d.heart_disease, d.avg_glucose_level,
             d.bmi, d.smoking_status, d.gender)

\* ----------------------------------------------- _determine_risk_level
_determine_risk_level_30(score) ==
    IF score >= 50 THEN "High"
    ELSE IF score >= 30 THEN "Medium"
    ELSE "Low"

_determine_risk_level(score) ==
    IF score >= 50 THEN "High"
    ELSE IF score >= 25 THEN "Medium"
    ELSE "Low"

\* ---------------------- utils.predictions.calculate_risk_score (keywords)
\* the scorer imported by the sweep: the point table, clamped, never raising
predictions_calculate_risk_score(age, hypertension, avg_glucose_level, bmi, smoking_status, heart_disease, gender) ==
    Ret(min(TableSum(age, hypertension, heart_disease, avg_glucose_level,
                     bmi, smoking_status, gender), 100))

\* ------------------------------------------------------------------ bounds
MaxPatients == 3
MaxBatch == 3
MaxBulk == 2
MaxDeletes == 1

\* ------------------------------------------------------------------ state
VARIABLES
    patient_data,     \* scorer call: the argument dictionary
    risk_score,       \* scorer call: what the call returned
    level_score,      \* classifier call: the argument
    risk_level,       \* classifier call: the returned level
    patients,         \* the patients collection, in natural order
    next_id,          \* the next fresh _id the store hands out
    response,         \* status of the last HTTP response, 0 before any
    pc,               \* the sweep's position
    batch_size,
    total_patients, updated_count, error_count, skipped_count, skip,
    batch_updates,    \* pending (query, update) pairs of the current batch
    outcome,          \* the dictionary the sweep returned
    written,          \* history: _ids whose update_one succeeded
    update_failed,    \* history: _ids whose update_one raised
    skipped,          \* history: _ids skipped for a missing required field
    fetch_failed,     \* history: a batch fetch raised
    count_failed,     \* history: count_documents raised
    inserted_during,  \* history: a record was inserted while the sweep ran
    sweep2,           \* local state of a second sweep over the same store
    request,          \* the request the backend handled last
    message,          \* the 'message' / 'error' entry of its JSON reply
    single_return,    \* what update_single_patient_risk_score returned
    single_log,       \* what update_single_patient_risk_score printed
    earlier,          \* an earlier scorer call: its input and its result
    validated,        \* what validate_patient_data returned
    processed,        \* history: how often the sweep fetched each initial _id (2: twice or more)
    users             \* the users collection

scorerVars == <<patient_data, risk_score>>
levelVars == <<level_score, risk_level>>
sweepVars == <<pc, batch_size, total_patients, updated_count, error_count,
               skipped_count, skip, batch_updates, outcome>>
historyVars == <<written, update_failed, skipped, fetch_failed, count_failed,
                 inserted_during>>
storeVars == <<patients, next_id>>
apiVars == <<request, message>>
singleVars == <<single_return, single_log>>
extVars == <<sweep2, apiVars, singleVars, earlier, validated, processed, users>>
vars == <<scorerVars, levelVars, storeVars, response, sweepVars, historyVars, extVars>>

NotCalled == [ok |-> FALSE, val |-> -1]
NoLevel == ""
NoOutcome == [returned |-> FALSE]
NoSweep ==
    [pc |-> "idle", batch_size |-> 1, total_patients |-> 0, updated_count |-> 0,
     error_count |-> 0, skipped_count |-> 0, skip |-> 0, batch_updates |-> <<>>,
     outcome |-> NoOutcome]
NoRequest == [op |-> "none", id |-> 0, body |-> <<>>]
NotReturned == [kind |-> "not returned", doc |-> <<>>]
NothingPrinted == [kind |-> "", key |-> [by |-> "", id |-> 0, pid |-> ""], fields |-> {}]
NotValidated == "not called"
\* User.create_default_admin: the one user of a fresh users collection
DefaultUsers == <<[email |-> "admin@hospital.com", is_active |-> TRUE]>>
NoEarlierCall == [data |-> <<>>, score |-> NotCalled, between |-> FALSE]

\* ------------------------------------------------------ stored documents
\* attribute combinations of the stored records the sweep runs over
StoredAttributes ==
    { [age |-> Num(80), hypertension |-> Num(1), heart_disease |-> Num(1),
       avg_glucose_level |-> Num(300), bmi |-> Num(40),
       smoking_status |-> Str("smokes"), gender |-> Str("Male")],
      [age |-> Num(25), hypertension |-> Num(0), heart_disease |-> Num(0),
       avg_glucose_level |-> Num(90), bmi |-> Num(22),
       smoking_status |-> Str("never smoked"), gender |-> Str("Female")],
      [age |-> Num(60), hypertension |-> AbsentNum, heart_disease |-> NoneNum,
       avg_glucose_level |-> Num(140), bmi |-> Num(24),
       smoking_status |-> AbsentStr, gender |-> AbsentStr],
      [age |-> Num(55), hypertension |-> Num(1), heart_disease |-> Num(0),
       avg_glucose_level |-> Num(150), bmi |-> NoneNum,
       smoking_status |-> Str("formerly smoked"), gender |-> Str("Male")],
      [age |-> NoneNum, hypertension |-> Num(0), heart_disease |-> Num(0),
       avg_glucose_level |-> Num(201), bmi |-> Num(30),
       smoking_status |-> Str("smokes"), gender |-> Str("Female")],
      [age |-> Num(70), hypertension |-> Num(0), heart_disease |-> Num(1),
       avg_glucose_level |-> AbsentNum, bmi |-> AbsentNum,
       smoking_status |-> Str("Unknown"), gender |-> Str("Male")] }

\* f"PT{n:05d}"
format_patient_id(n) ==
    IF n < 10 THEN "PT0000" \o ToString(n)
    ELSE IF n < 100 THEN "PT000" \o ToString(n)
    ELSE IF n < 1000 THEN "PT00" \o ToString(n)
    ELSE IF n < 10000 THEN "PT0" \o ToString(n)
    ELSE "PT" \o ToString(n)

\* a stored document: identity, patient_id, attributes, the two risk fields
Document(id, pid, attrs, score, level) ==
    [_id |-> id, patient_id |-> pid,
     age |-> attrs.age, hypertension |-> attrs.hypertension,
     heart_disease |-> attrs.heart_disease,
     avg_glucose_level |-> attrs.avg_glucose_level, bmi |-> attrs.bmi,
     smoking_status |-> attrs.smoking_status, gender |-> attrs.gender,
     risk_score |-> score, risk_level |-> level]

\* collections as bulk_insert_patients leaves them: patient_ids PT00001.. in
\* order, no risk fields yet
Collections ==
    UNION { { [i \in 1..n |-> Document(i, format_patient_id(i), a[i], AbsentNum, AbsentStr)] :
              a \in [1..n -> StoredAttributes] } : n \in 0..MaxPatients }

\* --------------------------------------------------------- store operations
find_skip_limit_from_skip(coll, sk, limit) ==
    SubSeq(coll, IF sk = 0 THEN 1 ELSE sk, min(sk + limit, Len(coll)))

\* find().skip(skip).limit(limit)
find_skip_limit(coll, sk, limit) ==
    SubSeq(coll, sk + 1, min(sk + limit, Len(coll)))

update_one_first(coll, id, update) ==
    [i \in 1..Len(coll) |->
        IF i = 1
        THEN [coll[i] EXCEPT !.risk_score = update.risk_score,
                             !.risk_level = update.risk_level]
        ELSE coll[i]]

update_one_replace(coll, id, update) ==
    [i \in 1..Len(coll) |->
        IF coll[i]._id = id
        THEN Document(id, coll[i].patient_id,
                      [k \in ScoringFields |->
                          IF k \in {"smoking_status", "gender"}
                          THEN AbsentStr ELSE AbsentNum],
                      update.risk_score, update.risk_level)
        ELSE coll[i]]

\* update_one({'_id': id}, {'$set': update}); no document matches: no change.
\* The risk_updated_at / updated_at stamps of the update are not in the state.
update_one(coll, id, update) ==
    [i \in 1..Len(coll) |->
        IF coll[i]._id = id
        THEN [coll[i] EXCEPT !.risk_score = update.risk_score,
                             !.risk_level = update.risk_level]
        ELSE coll[i]]

\* ----------------------------------------- update_all_patients_risk_scores
MissingRequired_no_bmi(patient) ==
    \/ IsNone(GetOrNone(patient, "age"))
    \/ IsNone(GetOrNone(patient, "avg_glucose_level"))

\* line 100: None in [age, avg_glucose_level, bmi]
MissingRequired(patient) ==
    \/ IsNone(GetOrNone(patient, "age"))
    \/ IsNone(GetOrNone(patient, "avg_glucose_level"))
    \/ IsNone(GetOrNone(patient, "bmi"))

\* lines 88-117: field extraction and the scorer call
SweepScore(patient) ==
    predictions_calculate_risk_score(
        GetOrNone(patient, "age"),
        Get(patient, "hypertension", Num(0)),
        GetOrNone(patient, "avg_glucose_level"),
        GetOrNone(patient, "bmi"),
        Get(patient, "smoking_status", Str("Unknown")),
        Get(patient, "heart_disease", Num(0)),
        Get(patient, "gender", Str("Male")))

\* lines 119-133: the pending update of one scored record
PendingUpdate(patient) ==
    [_id |-> patient._id,
     risk_score |-> Num(SweepScore(patient).val),
     risk_level |-> Str(_determine_risk_level(SweepScore(patient).val))]

IsSkipped(patient) == MissingRequired(patient)
IsScored(patient) == ~MissingRequired(patient) /\ SweepScore(patient).ok
\* lines 137-140: the scorer call raised
IsProcessingError(patient) == ~MissingRequired(patient) /\ ~SweepScore(patient).ok

success_rate_no_percent(updated, total) ==
    IF total > 0 THEN [num |-> updated, den |-> total]
    ELSE [num |-> 0, den |-> 1]

\* lines 168: the success_rate entry, an exact fraction num/den
success_rate(updated, total) ==
    IF total > 0 THEN [num |-> updated * 100, den |-> total]
    ELSE [num |-> 0, den |-> 1]

FailureOutcome_no_error ==
    [returned |-> TRUE, total_patients |-> 0, updated |-> 0, skipped |-> 0,
     errors |-> 0, success_rate |-> [num |-> 0, den |-> 1]]

\* lines 173-179: the dictionary the outer handler returns
FailureOutcome ==
    [returned |-> TRUE, total_patients |-> 0, updated |-> 0, skipped |-> 0,
     errors |-> 1, success_rate |-> [num |-> 0, den |-> 1]]

\* lines 61-73: count_documents succeeds, the counters are initialised
SweepStart ==
    /\ pc = "start"
    /\ total_patients' = Len(patients)
    /\ updated_count' = 0
    /\ error_count' = 0
    /\ skipped_count' = 0
    /\ skip' = 0
    /\ pc' = "fetch"
    /\ UNCHANGED <<scorerVars, levelVars, extVars, storeVars, response, batch_size, batch_updates,
                   outcome, historyVars>>

\* lines 65, 171-179: count_documents raises, the outer handler returns
SweepCountFails ==
    /\ pc = "start"
    /\ outcome' = FailureOutcome
    /\ count_failed' = TRUE
    /\ pc' = "done"
    /\ UNCHANGED <<scorerVars, levelVars, extVars, storeVars, response, batch_size, total_patients,
                   updated_count, error_count, skipped_count, skip,
                   batch_updates, written, update_failed, skipped,
                   fetch_failed, inserted_during>>

\* lines 76-140, 151: a non-empty batch is fetched and every record of it is
\* skipped, scored into batch_updates, or counted as a processing error
FetchBatch ==
    /\ pc = "fetch"
    /\ LET patients_batch == find_skip_limit(patients, skip, batch_size)
           scored == SelectSeq(patients_batch, IsScored)
       IN  /\ patients_batch # <<>>
           /\ skipped_count' =
                  skipped_count + Len(SelectSeq(patients_batch, IsSkipped))
           /\ updated_count' = updated_count + Len(scored)
           /\ error_count' =
                  error_count + Len(SelectSeq(patients_batch, IsProcessingError))
           /\ batch_updates' = [i \in 1..Len(scored) |-> PendingUpdate(scored[i])]
           /\ skipped' = skipped \cup
                  {patients_batch[i]._id : i \in
                      {j \in 1..Len(patients_batch) : IsSkipped(patients_batch[j])}}
           /\ processed' =
                  [i \in DOMAIN processed |->
                      min(2, processed[i] + Cardinality({j \in 1..Len(patients_batch) :
                                                            patients_batch[j]._id = i}))]
           /\ IF scored = <<>>
              THEN skip' = skip + batch_size /\ pc' = "fetch"
              ELSE skip' = skip /\ pc' = "update"
    /\ UNCHANGED <<scorerVars, levelVars, sweep2, apiVars, singleVars, earlier,
                   validated, users, storeVars, response, batch_size, total_patients,
                   outcome, written, update_failed, fetch_failed, count_failed, inserted_during>>

FetchEmpty_restarts ==
    /\ pc = "fetch"
    /\ find_skip_limit(patients, skip, batch_size) = <<>>
    /\ skip' = 0
    /\ updated_count' = 0
    /\ error_count' = 0
    /\ skipped_count' = 0
    /\ pc' = IF patients = <<>> THEN "done" ELSE "fetch"
    /\ outcome' =
           IF patients = <<>>
           THEN [returned |-> TRUE, total_patients |-> 0, updated |-> 0,
                 skipped |-> 0, errors |-> 0,
                 success_rate |-> [num |-> 0, den |-> 1]]
           ELSE outcome
    /\ UNCHANGED <<scorerVars, levelVars, extVars, storeVars, response, batch_size,
                   total_patients, batch_updates, historyVars>>

\* lines 78-79, 154-169: the fetch is empty, the loop ends, the outcome returns
FetchEmpty ==
    /\ pc = "fetch"
    /\ find_skip_limit(patients, skip, batch_size) = <<>>
    /\ outcome' =
           [returned |-> TRUE, total_patients |-> total_patients,
            updated |-> updated_count, skipped |-> skipped_count,
            errors |-> error_count,
            success_rate |-> success_rate(updated_count, total_patients)]
    /\ pc' = "done"
    /\ UNCHANGED <<scorerVars, levelVars, extVars, storeVars, response, batch_size, total_patients,
                   updated_count, error_count, skipped_count, skip,
                   batch_updates, historyVars>>

\* lines 76, 171-179: the fetch raises, the outer handler returns
FetchFails ==
    /\ pc = "fetch"
    /\ outcome' = FailureOutcome
    /\ fetch_failed' = TRUE
    /\ pc' = "done"
    /\ UNCHANGED <<scorerVars, levelVars, extVars, storeVars, response, batch_size, total_patients,
                   updated_count, error_count, skipped_count, skip,
                   batch_updates, written, update_failed, skipped,
                   count_failed, inserted_during>>

AfterUpdate_no_advance ==
    /\ batch_updates' = Tail(batch_updates)
    /\ skip' = skip
    /\ pc' = IF Tail(batch_updates) = <<>> THEN "fetch" ELSE "update"

\* lines 151-152: after the last pending update the cursor advances
AfterUpdate ==
    /\ batch_updates' = Tail(batch_updates)
    /\ IF Tail(batch_updates) = <<>>
       THEN skip' = skip + batch_size /\ pc' = "fetch"
       ELSE skip' = skip /\ pc' = "update"

\* lines 144-146: update_one of the next pending update succeeds
UpdateOne ==
    /\ pc = "update"
    /\ patients' = update_one(patients, Head(batch_updates)._id, Head(batch_updates))
    /\ written' = written \cup {Head(batch_updates)._id}
    /\ AfterUpdate
    /\ UNCHANGED <<scorerVars, levelVars, extVars, next_id, response, batch_size, total_patients,
                   updated_count, error_count, skipped_count, outcome,
                   update_failed, skipped, fetch_failed, count_failed, inserted_during>>

UpdateFails_drops_batch ==
    /\ pc = "update"
    /\ error_count' = error_count + 1
    /\ update_failed' = update_failed \cup {Head(batch_updates)._id}
    /\ batch_updates' = <<>>
    /\ skip' = skip + batch_size
    /\ pc' = "fetch"
    /\ UNCHANGED <<scorerVars, levelVars, extVars, storeVars, response, batch_size, total_patients,
                   updated_count, skipped_count, outcome, written, skipped,
                   fetch_failed, count_failed, inserted_during>>

\* lines 147-149: update_one raises, the error is counted, the loop goes on
UpdateFails ==
    /\ pc = "update"
    /\ error_count' = error_count + 1
    /\ update_failed' = update_failed \cup {Head(batch_updates)._id}
    /\ AfterUpdate
    /\ UNCHANGED <<scorerVars, levelVars, extVars, storeVars, response, batch_size, total_patients,
                   updated_count, skipped_count, outcome, written, skipped,
                   fetch_failed, count_failed, inserted_during>>

\* ---------------------------------------------------- scorer specification
NoExt ==
    /\ sweep2 = NoSweep
    /\ request = NoRequest
    /\ message = ""
    /\ single_return = NotReturned
    /\ single_log = NothingPrinted
    /\ earlier = NoEarlierCall
    /\ validated = NotValidated
    /\ processed = [i \in 1..Len(patients) |-> 0]
    /\ users = DefaultUsers

IdleSweep ==
    /\ patients = <<>>
    /\ next_id = 1
    /\ response = 0
    /\ pc = "idle"
    /\ batch_size = 1
    /\ total_patients = 0 /\ updated_count = 0 /\ error_count = 0
    /\ skipped_count = 0 /\ skip = 0
    /\ batch_updates = <<>>
    /\ outcome = NoOutcome
    /\ written = {} /\ update_failed = {} /\ skipped = {}
    /\ fetch_failed = FALSE /\ count_failed = FALSE
    /\ inserted_during = FALSE
    /\ NoExt

InitScore ==
    /\ patient_data \in PatientData
    /\ risk_score = NotCalled
    /\ level_score = 0 /\ risk_level = NoLevel
    /\ IdleSweep

CallScore ==
    /\ risk_score = NotCalled
    /\ risk_score' = calculate_risk_score(patient_data)
    /\ UNCHANGED <<patient_data, levelVars, extVars, storeVars, response, sweepVars, historyVars>>

NextScore == CallScore

SpecScore == InitScore /\ [][NextScore]_vars

\* ------------------------------------------------ classifier specification
ScoreRange == -10..110

InitLevel ==
    /\ patient_data \in {[age |-> AbsentNum, hypertension |-> AbsentNum,
                          heart_disease |-> AbsentNum,
                          avg_glucose_level |-> AbsentNum, bmi |-> AbsentNum,
                          smoking_status |-> AbsentStr, gender |-> AbsentStr]}
    /\ risk_score = NotCalled
    /\ level_score \in ScoreRange
    /\ risk_level = NoLevel
    /\ IdleSweep

CallLevel ==
    /\ risk_level = NoLevel
    /\ risk_level' = _determine_risk_level(level_score)
    /\ UNCHANGED <<scorerVars, level_score, extVars, storeVars, response, sweepVars, historyVars>>

NextLevel == CallLevel

SpecLevel == InitLevel /\ [][NextLevel]_vars

\* ----------------------------------------------------- sweep specification
NoCalls ==
    /\ patient_data = [age |-> AbsentNum, hypertension |-> AbsentNum,
                       heart_disease |-> AbsentNum,
                       avg_glucose_level |-> AbsentNum, bmi |-> AbsentNum,
                       smoking_status |-> AbsentStr, gender |-> AbsentStr]
    /\ risk_score = NotCalled
    /\ level_score = 0
    /\ risk_level = NoLevel

InitSweep ==
    /\ NoCalls
    /\ patients \in Collections
    /\ next_id = Len(patients) + 1
    /\ response = 0
    /\ pc = "start"
    /\ batch_size \in 1..MaxBatch
    /\ total_patients = 0 /\ updated_count = 0 /\ error_count = 0
    /\ skipped_count = 0 /\ skip = 0
    /\ batch_updates = <<>>
    /\ outcome = NoOutcome
    /\ written = {} /\ update_failed = {} /\ skipped = {}
    /\ fetch_failed = FALSE /\ count_failed = FALSE
    /\ inserted_during = FALSE
    /\ NoExt

NextSweep ==
    \/ SweepStart
    \/ SweepCountFails
    \/ FetchBatch
    \/ FetchEmpty
    \/ FetchFails
    \/ UpdateOne
    \/ UpdateFails

SpecSweep == InitSweep /\ [][NextSweep]_vars

\* ------------------------------------------------------ create_patient
\* re.sub(r'[<>&\"\']', '', data)[:500] on the strings a request carries
strip_dangerous(x) ==
    IF x = "smokes&" THEN "smokes"
    ELSE IF x = "<Male>" THEN "Male"
    ELSE x

sanitize_input(value) ==
    IF value.t = "str" THEN Str(strip_dangerous(value.s)) ELSE value

\* lines 181-186: every string value of the request is sanitized
Sanitized(data) == [k \in DOMAIN data |-> sanitize_input(data[k])]

\* isinstance(x, (int, float)) and lo <= x <= hi
NumberIn(x, lo, hi) == x.t = "num" /\ lo <= x.v /\ x.v <= hi

ValidSmokingStatus == {"never smoked", "formerly smoked", "smokes", "Unknown"}

validate_patient_data_age150(data) ==
    /\ NumberIn(Get(data, "age", Num(0)), 0, 150)
    /\ NumberIn(Get(data, "bmi", Num(0)), 10, 80)
    /\ NumberIn(Get(data, "avg_glucose_level", Num(0)), 50, 500)
    /\ LET smoking_status == Get(data, "smoking_status", Str(""))
       IN  smoking_status.t = "str" /\ smoking_status.s \in ValidSmokingStatus

validate_patient_data(data) ==
    /\ NumberIn(Get(data, "age", Num(0)), 0, 120)
    /\ NumberIn(Get(data, "bmi", Num(0)), 10, 80)
    /\ NumberIn(Get(data, "avg_glucose_level", Num(0)), 50, 500)
    /\ LET smoking_status == Get(data, "smoking_status", Str(""))
       IN  smoking_status.t = "str" /\ smoking_status.s \in ValidSmokingStatus

\* lines 174-178: 'field not in data'
CreateRequiredFields == {"gender", "age", "avg_glucose_level", "bmi", "smoking_status"}

MissingCreateField_no_age(data) ==
    \E f \in CreateRequiredFields \ {"age"} : data[f].t = "absent"

MissingCreateField(data) == \E f \in CreateRequiredFields : data[f].t = "absent"

CreateRiskLevel_25(score) ==
    IF score >= 50 THEN "High"
    ELSE IF score >= 25 THEN "Medium"
    ELSE "Low"

\* lines 199-204: the level assigned at creation
CreateRiskLevel(score) ==
    IF score >= 50 THEN "High"
    ELSE IF score >= 30 THEN "Medium"
    ELSE "Low"

\* the unique index on patient_id rejects a second document with the same key
DuplicateKey(coll, pid) == \E i \in 1..Len(coll) : coll[i].patient_id = pid

\* request bodies of POST /create
CreateRequests ==
    { [age |-> Num(60), hypertension |-> Num(0), heart_disease |-> Num(0),
       avg_glucose_level |-> Num(90), bmi |-> Num(22),
       smoking_status |-> Str("never smoked"), gender |-> Str("Male")],
      [age |-> Num(55), hypertension |-> Num(1), heart_disease |-> AbsentNum,
       avg_glucose_level |-> Num(150), bmi |-> Num(28),
       smoking_status |-> Str("smokes&"), gender |-> Str("Female")],
      [age |-> Num(150), hypertension |-> Num(0), heart_disease |-> Num(0),
       avg_glucose_level |-> Num(90), bmi |-> Num(22),
       smoking_status |-> Str("never smoked"), gender |-> Str("Male")],
      [age |-> Num(70), hypertension |-> Num(0), heart_disease |-> Num(0),
       avg_glucose_level |-> Num(90), bmi |-> NoneNum,
       smoking_status |-> Str("smokes"), gender |-> Str("Male")],
      [age |-> Num(70), hypertension |-> Num(0), heart_disease |-> Num(0),
       avg_glucose_level |-> AbsentNum, bmi |-> Num(30),
       smoking_status |-> Str("smokes"), gender |-> Str("Male")],
      [age |-> AbsentNum, hypertension |-> Num(0), heart_disease |-> Num(0),
       avg_glucose_level |-> Num(90), bmi |-> Num(22),
       smoking_status |-> Str("never smoked"), gender |-> Str("Female")] }

SweepRunning == pc \in {"fetch", "update"}

\* lines 167-233: POST /create, one request handled from start to end; the
\* stroke, created_at and updated_at entries are not in the state
create_patient(data) ==
    LET sanitized_data == Sanitized(data)
        score == calculate_risk_score(sanitized_data)
        pid == format_patient_id(Len(patients) + 1)
    IN  IF MissingCreateField(data)
        THEN /\ response' = 400
             /\ message' = "field is required"
             /\ UNCHANGED <<storeVars, inserted_during>>
        ELSE IF ~validate_patient_data(sanitized_data)
        THEN /\ response' = 400
             /\ message' = "Invalid patient data"
             /\ UNCHANGED <<storeVars, inserted_during>>
        ELSE IF ~score.ok \/ DuplicateKey(patients, pid)
        THEN /\ response' = 500
             /\ message' = "exception"
             /\ UNCHANGED <<storeVars, inserted_during>>
        ELSE /\ patients' = Append(patients,
                     Document(next_id, pid, sanitized_data, Num(score.val),
                              Str(CreateRiskLevel(score.val))))
             /\ next_id' = next_id + 1
             /\ inserted_during' = (inserted_during \/ SweepRunning)
             /\ response' = 201
             /\ message' = "Patient created successfully"

CreatePatient ==
    /\ Len(patients) < MaxPatients
    /\ \E data \in CreateRequests :
           /\ create_patient(data)
           /\ request' = [op |-> "create", id |-> 0, body |-> <<data>>]
    /\ UNCHANGED <<scorerVars, levelVars, sweepVars, written, update_failed,
                   skipped, fetch_failed, count_failed, sweep2, singleVars,
                   earlier, validated, processed, users>>

\* --------------------- the sweep next to the backend's creation endpoint
NextConc == NextSweep \/ CreatePatient

SpecConc == InitSweep /\ [][NextConc]_vars

\* the sweep keeps running: every enabled step is eventually taken
SpecSweepFair == SpecSweep /\ WF_vars(NextSweep)

\* ------------------------------------------- two sweeps over one store
\* a second invocation of update_all_patients_risk_scores (lines 51-179):
\* its locals are the fields of sweep2, the store is shared
Sweep2Unchanged ==
    UNCHANGED <<scorerVars, levelVars, response, sweepVars, next_id, apiVars,
                singleVars, earlier, validated, processed, users,
                inserted_during>>

\* lines 61-73
Sweep2Start ==
    /\ sweep2.pc = "start"
    /\ sweep2' = [sweep2 EXCEPT !.total_patients = Len(patients),
                                !.updated_count = 0, !.error_count = 0,
                                !.skipped_count = 0, !.skip = 0, !.pc = "fetch"]
    /\ Sweep2Unchanged
    /\ UNCHANGED <<patients, written, update_failed, skipped, fetch_failed, count_failed>>

\* lines 76-140, 151
Sweep2FetchBatch ==
    /\ sweep2.pc = "fetch"
    /\ LET patients_batch == find_skip_limit(patients, sweep2.skip, sweep2.batch_size)
           scored == SelectSeq(patients_batch, IsScored)
       IN  /\ patients_batch # <<>>
           /\ sweep2' =
                [sweep2 EXCEPT
                    !.skipped_count = @ + Len(SelectSeq(patients_batch, IsSkipped)),
                    !.updated_count = @ + Len(scored),
                    !.error_count = @ + Len(SelectSeq(patients_batch, IsProcessingError)),
                    !.batch_updates = [i \in 1..Len(scored) |-> PendingUpdate(scored[i])],
                    !.skip = IF scored = <<>> THEN @ + sweep2.batch_size ELSE @,
                    !.pc = IF scored = <<>> THEN "fetch" ELSE "update"]
           /\ skipped' = skipped \cup
                  {patients_batch[i]._id : i \in
                      {j \in 1..Len(patients_batch) : IsSkipped(patients_batch[j])}}
    /\ Sweep2Unchanged
    /\ UNCHANGED <<patients, written, update_failed, fetch_failed, count_failed>>

\* lines 78-79, 154-169
Sweep2FetchEmpty ==
    /\ sweep2.pc = "fetch"
    /\ find_skip_limit(patients, sweep2.skip, sweep2.batch_size) = <<>>
    /\ sweep2' =
         [sweep2 EXCEPT
            !.outcome =
               [returned |-> TRUE, total_patients |-> sweep2.total_patients,
                updated |-> sweep2.updated_count, skipped |-> sweep2.skipped_count,
                errors |-> sweep2.error_count,
                success_rate |-> success_rate(sweep2.updated_count,
                                              sweep2.total_patients)],
            !.pc = "done"]
    /\ Sweep2Unchanged
    /\ UNCHANGED <<patients, written, update_failed, skipped, fetch_failed, count_failed>>

\* lines 151-152 on the second sweep's locals
Sweep2AfterUpdate(s) ==
    [s EXCEPT !.batch_updates = Tail(@),
              !.skip = IF Tail(s.batch_updates) = <<>> THEN @ + s.batch_size ELSE @,
              !.pc = IF Tail(s.batch_updates) = <<>> THEN "fetch" ELSE "update"]

\* lines 144-146
Sweep2UpdateOne ==
    /\ sweep2.pc = "update"
    /\ patients' = update_one(patients, Head(sweep2.batch_updates)._id,
                              Head(sweep2.batch_updates))
    /\ written' = written \cup {Head(sweep2.batch_updates)._id}
    /\ sweep2' = Sweep2AfterUpdate(sweep2)
    /\ Sweep2Unchanged
    /\ UNCHANGED <<update_failed, skipped, fetch_failed, count_failed>>

\* the second sweep's store calls succeed; the first sweep's updates may fail
NextSweep2 ==
    \/ Sweep2Start
    \/ Sweep2FetchBatch
    \/ Sweep2FetchEmpty
    \/ Sweep2UpdateOne

\* the records two concurrent sweeps run over
TwoSweepAttributes ==
    {a \in StoredAttributes : a.age \in {Num(80), Num(60), NoneNum}}

TwoSweepCollections ==
    UNION { { [i \in 1..n |-> Document(i, format_patient_id(i), a[i], AbsentNum, AbsentStr)] :
              a \in [1..n -> TwoSweepAttributes] } : n \in 0..MaxPatients }

InitTwoSweeps ==
    /\ NoCalls
    /\ patients \in TwoSweepCollections
    /\ next_id = Len(patients) + 1
    /\ response = 0
    /\ pc = "start"
    /\ batch_size \in 1..MaxBatch
    /\ total_patients = 0 /\ updated_count = 0 /\ error_count = 0
    /\ skipped_count = 0 /\ skip = 0
    /\ batch_updates = <<>>
    /\ outcome = NoOutcome
    /\ written = {} /\ update_failed = {} /\ skipped = {}
    /\ fetch_failed = FALSE /\ count_failed = FALSE
    /\ inserted_during = FALSE
    /\ \E b \in 1..MaxBatch : sweep2 = [NoSweep EXCEPT !.pc = "start", !.batch_size = b]
    /\ request = NoRequest
    /\ message = ""
    /\ single_return = NotReturned
    /\ single_log = NothingPrinted
    /\ earlier = NoEarlierCall
    /\ validated = NotValidated
    /\ processed = [i \in 1..Len(patients) |-> 0]
    /\ users = DefaultUsers

NextTwoSweeps ==
    \/ SweepStart
    \/ FetchBatch
    \/ FetchEmpty
    \/ UpdateOne
    \/ UpdateFails
    \/ NextSweep2

SpecTwoSweeps == InitTwoSweeps /\ [][NextTwoSweeps]_vars

\* ---------------------------------------- update_single_patient_risk_score
\* the argument: an ObjectId, looked up as _id, or anything else, looked up
\* as patient_id (lines 193-196)
ById(i) == [by |-> "_id", id |-> i, pid |-> ""]
ByPatientId(p) == [by |-> "patient_id", id |-> 0, pid |-> p]

SingleKeys ==
    {ById(i) : i \in 1..(MaxPatients + 1)}
    \cup {ByPatientId(format_patient_id(i)) : i \in 1..(MaxPatients + 1)}

\* find_one: the position of the first matching document, 0 when none matches
find_one(coll, key) ==
    LET hits == {i \in 1..Len(coll) :
                    IF key.by = "_id" THEN coll[i]._id = key.id
                    ELSE coll[i].patient_id = key.pid}
    IN  IF hits = {} THEN 0 ELSE CHOOSE i \in hits : \A j \in hits : i <= j

\* line 209: the trailing comma makes gender the 1-tuple (value,)
TupleOf(x) == [t |-> "tuple", s |-> x.s]

MissingFields_no_bmi(patient) ==
    {f \in {"age", "avg_glucose_level"} : IsNone(GetOrNone(patient, f))}

\* lines 215-219: the required fields that are None
MissingFields(patient) ==
    {f \in {"age", "avg_glucose_level", "bmi"} : IsNone(GetOrNone(patient, f))}

\* lines 203-235: field extraction and the scorer call
SingleScore(patient) ==
    predictions_calculate_risk_score(
        GetOrNone(patient, "age"),
        Get(patient, "hypertension", Num(0)),
        GetOrNone(patient, "avg_glucose_level"),
        GetOrNone(patient, "bmi"),
        Get(patient, "smoking_status", Str("Unknown")),
        Get(patient, "heart_disease", Num(0)),
        TupleOf(Get(patient, "gender", Str("Male"))))

\* lines 241-246
SingleUpdate(patient) ==
    [_id |-> patient._id,
     risk_score |-> Num(SingleScore(patient).val),
     risk_level |-> Str(_determine_risk_level(SingleScore(patient).val))]

ReturnNone == [kind |-> "None", doc |-> <<>>]
ReturnDoc(d) == [kind |-> "doc", doc |-> <<d>>]
Printed(kind, key, fields) == [kind |-> kind, key |-> key, fields |-> fields]

SingleUnchanged ==
    UNCHANGED <<scorerVars, levelVars, response, sweepVars, historyVars,
                next_id, sweep2, apiVars, earlier, validated, processed,
                users>>

\* lines 191-259: one call whose store operations succeed
update_single_patient_risk_score(key) ==
    LET m == find_one(patients, key)
    IN  IF m = 0
        THEN /\ single_log' = Printed("Patient not found", key, {})
             /\ single_return' = ReturnNone
             /\ UNCHANGED patients
        ELSE IF MissingFields(patients[m]) # {}
        THEN /\ single_log' = Printed("Missing required fields", key,
                                      MissingFields(patients[m]))
             /\ single_return' = ReturnNone
             /\ UNCHANGED patients
        ELSE IF ~SingleScore(patients[m]).ok
        THEN /\ single_log' = Printed("Error updating risk score", key, {})
             /\ single_return' = ReturnNone
             /\ UNCHANGED patients
        ELSE /\ patients' = update_one(patients, patients[m]._id,
                                       SingleUpdate(patients[m]))
             /\ IF patients' # patients
                THEN /\ single_log' = Printed("Updated risk score", key, {})
                     /\ single_return' = ReturnDoc(patients'[m])
                ELSE /\ single_log' = Printed("No changes made", key, {})
                     /\ single_return' = ReturnDoc(patients[m])

UpdateSingle ==
    /\ \E key \in SingleKeys : update_single_patient_risk_score(key)
    /\ SingleUnchanged

\* lines 261-263: find_one or update_one raises, the handler returns None
UpdateSingleFails ==
    /\ \E key \in SingleKeys :
           single_log' = Printed("Error updating risk score", key, {})
    /\ single_return' = ReturnNone
    /\ UNCHANGED patients
    /\ SingleUnchanged

InitSingle ==
    /\ NoCalls
    /\ patients \in Collections
    /\ next_id = Len(patients) + 1
    /\ response = 0
    /\ pc = "idle"
    /\ batch_size = 1
    /\ total_patients = 0 /\ updated_count = 0 /\ error_count = 0
    /\ skipped_count = 0 /\ skip = 0
    /\ batch_updates = <<>>
    /\ outcome = NoOutcome
    /\ written = {} /\ update_failed = {} /\ skipped = {}
    /\ fetch_failed = FALSE /\ count_failed = FALSE
    /\ inserted_during = FALSE
    /\ NoExt

NextSingle == UpdateSingle \/ UpdateSingleFails

SpecSingle == InitSingle /\ [][NextSingle]_vars

\* ------------------------------------------------ bulk_create_patients
\* lines 330-335: the level assigned by POST /bulk
BulkRiskLevel_50(score) ==
    IF score >= 50 THEN "High"
    ELSE IF score >= 25 THEN "Medium"
    ELSE "Low"

BulkRiskLevel(score) ==
    IF score >= 60 THEN "High"
    ELSE IF score >= 40 THEN "Medium"
    ELSE "Low"

\* lines 318-319: 'field not in patient_data'
BulkRequiredFields == {"gender", "age", "avg_glucose_level", "bmi"}

MissingBulkField(data) == \E f \in BulkRequiredFields : data[f].t = "absent"

\* the entries of a POST /bulk array: scores 55 and 30, one without gender,
\* one whose bmi is null
BulkItems ==
    { [age |-> Num(70), hypertension |-> Num(1), heart_disease |-> Num(0),
       avg_glucose_level |-> Num(90), bmi |-> Num(25),
       smoking_status |-> Str("never smoked"), gender |-> Str("Male")],
      [age |-> Num(70), hypertension |-> Num(0), heart_disease |-> AbsentNum,
       avg_glucose_level |-> Num(90), bmi |-> Num(22),
       smoking_status |-> AbsentStr, gender |-> Str("Female")],
      [age |-> Num(80), hypertension |-> Num(1), heart_disease |-> Num(1),
       avg_glucose_level |-> Num(300), bmi |-> Num(40),
       smoking_status |-> Str("smokes"), gender |-> AbsentStr],
      [age |-> Num(55), hypertension |-> Num(0), heart_disease |-> Num(0),
       avg_glucose_level |-> Num(150), bmi |-> NoneNum,
       smoking_status |-> Str("smokes"), gender |-> Str("Male")] }

BulkRequests == UNION {[1..n -> BulkItems] : n \in 0..MaxBulk}

\* lines 314-350: the loop over the array from entry index on; the state of
\* the loop is the collection, created_count and the number of errors
RECURSIVE bulk_loop(_, _, _, _, _)
bulk_loop(data, index, coll, created_count, errors) ==
    IF index > Len(data)
    THEN [coll |-> coll, created_count |-> created_count, errors |-> errors]
    ELSE LET entry == data[index]
             score == calculate_risk_score(entry)
             pid == format_patient_id(Len(coll) + created_count + 1)
         IN  IF \/ MissingBulkField(entry)
                \/ ~score.ok
                \/ DuplicateKey(coll, pid)
             THEN bulk_loop(data, index + 1, coll, created_count, errors + 1)
             ELSE bulk_loop(data, index + 1,
                      Append(coll, Document(next_id + created_count, pid,
                                            entry, Num(score.val),
                                            Str(BulkRiskLevel(score.val)))),
                      created_count + 1, errors)

\* lines 304-359: POST /bulk with an array, handled from start to end
bulk_create_patients(data) ==
    LET end == bulk_loop(data, 1, patients, 0, 0)
    IN  /\ patients' = end.coll
        /\ next_id' = next_id + end.created_count
        /\ inserted_during' = (inserted_during \/ (SweepRunning /\ end.created_count > 0))
        /\ response' = 201
        /\ message' = "Successfully created " \o ToString(end.created_count) \o " patients"

ApiUnchanged ==
    UNCHANGED <<scorerVars, levelVars, sweepVars, written, update_failed,
                skipped, fetch_failed, count_failed, sweep2, singleVars,
                earlier, validated, processed, users>>

BulkCreatePatients ==
    /\ \E data \in BulkRequests :
           /\ Len(patients) + Len(data) <= MaxPatients
           /\ bulk_create_patients(data)
           /\ request' = [op |-> "bulk", id |-> 0, body |-> data]
    /\ ApiUnchanged

\* lines 308-309: the body is not an array
BulkNotAList ==
    /\ response' = 400
    /\ message' = "Expected array of patients"
    /\ request' = [op |-> "bulk, not an array", id |-> 0, body |-> <<>>]
    /\ UNCHANGED <<storeVars, inserted_during>>
    /\ ApiUnchanged

\* ------------------------------------------------------- update_patient
\* Patient.find_by_id: a string that is no ObjectId (modelled as id 0)
\* finds nothing; the position of the document, 0 when there is none
find_by_id(coll, id) ==
    IF id = 0 THEN 0 ELSE find_one(coll, ById(id))

\* {**patient, **sanitized_data} on the scoring fields
Merged(patient, sanitized_data) ==
    [k \in ScoringFields |->
        IF sanitized_data[k].t = "absent" THEN patient[k] ELSE sanitized_data[k]]

\* line 260: a scoring key is in the payload
HasScoringKey(sanitized_data) ==
    \E k \in ScoringFields : sanitized_data[k].t # "absent"

\* Patient.update: $set of the payload's keys on the document with this _id
Patient_update(coll, m, sanitized_data, rescored, score) ==
    [i \in 1..Len(coll) |->
        IF i # m THEN coll[i]
        ELSE Document(coll[m]._id, coll[m].patient_id,
                      Merged(coll[m], sanitized_data),
                      IF rescored THEN Num(score) ELSE coll[m].risk_score,
                      IF rescored THEN Str(CreateRiskLevel(score))
                      ELSE coll[m].risk_level)]

\* bodies of PUT /<patient_id>: age and bmi only, a full valid body,
\* hypertension only
PutRequests ==
    { [age |-> Num(70), hypertension |-> AbsentNum, heart_disease |-> AbsentNum,
       avg_glucose_level |-> AbsentNum, bmi |-> Num(30),
       smoking_status |-> AbsentStr, gender |-> AbsentStr],
      [age |-> Num(50), hypertension |-> Num(1), heart_disease |-> AbsentNum,
       avg_glucose_level |-> Num(201), bmi |-> Num(25),
       smoking_status |-> Str("formerly smoked"), gender |-> AbsentStr],
      [age |-> AbsentNum, hypertension |-> Num(1), heart_disease |-> AbsentNum,
       avg_glucose_level |-> AbsentNum, bmi |-> AbsentNum,
       smoking_status |-> AbsentStr, gender |-> AbsentStr] }

PutIds == {0, 1, MaxPatients, MaxPatients + 1}

\* lines 238-286: PUT /<patient_id>, one request handled from start to end.
\* The update stamps updated_at, so the store reports the matched document
\* as modified; a raising scorer reaches the outer handler.
update_patient(patient_id, data) ==
    LET m == find_by_id(patients, patient_id)
        sanitized_data == Sanitized(data)
        rescored == HasScoringKey(sanitized_data)
        score == IF m = 0 THEN Raise
                 ELSE calculate_risk_score(Merged(patients[m], sanitized_data))
        modified_count == 1
    IN  IF m = 0
        THEN /\ response' = 404
             /\ message' = "Patient not found"
             /\ UNCHANGED patients
        ELSE IF ~validate_patient_data(sanitized_data)
        THEN /\ response' = 400
             /\ message' = "Invalid patient data"
             /\ UNCHANGED patients
        ELSE IF rescored /\ ~score.ok
        THEN /\ response' = 500
             /\ message' = "exception"
             /\ UNCHANGED patients
        ELSE /\ patients' = Patient_update(patients, m, sanitized_data,
                                           rescored, score.val)
             /\ response' = 200
             /\ message' = IF modified_count > 0
                           THEN "Patient updated successfully"
                           ELSE "No changes made"

UpdatePatient ==
    /\ \E patient_id \in PutIds, data \in PutRequests :
           /\ update_patient(patient_id, data)
           /\ request' = [op |-> "update", id |-> patient_id, body |-> <<data>>]
    /\ UNCHANGED <<next_id, inserted_during>>
    /\ ApiUnchanged

\* ------------------------------------------- get_patient, delete_patient
\* lines 135-148: GET /<patient_id>
get_patient(patient_id) ==
    LET m == find_by_id(patients, patient_id)
    IN  IF m = 0
        THEN response' = 404 /\ message' = "Patient not found"
        ELSE response' = 200 /\ message' = "patient"

GetPatient ==
    /\ \E patient_id \in PutIds :
           /\ get_patient(patient_id)
           /\ request' = [op |-> "get", id |-> patient_id, body |-> <<>>]
    /\ UNCHANGED <<storeVars, inserted_during>>
    /\ ApiUnchanged

\* delete_one({'_id': id}): the collection without the matching document
delete_one(coll, m) ==
    [i \in 1..(Len(coll) - 1) |-> IF i < m THEN coll[i] ELSE coll[i + 1]]

\* lines 288-300: DELETE /<patient_id>. Patient.delete builds the ObjectId
\* without the is_valid_id test of find_by_id: a string that is no ObjectId
\* (id 0) raises and reaches the handler's except branch.
delete_patient(patient_id) ==
    LET m == IF patient_id = 0 THEN 0 ELSE find_one(patients, ById(patient_id))
        deleted_count == IF m = 0 THEN 0 ELSE 1
    IN  IF patient_id = 0
        THEN /\ response' = 500
             /\ message' = "exception"
             /\ UNCHANGED patients
        ELSE IF deleted_count > 0
        THEN /\ patients' = delete_one(patients, m)
             /\ response' = 200
             /\ message' = "Patient deleted successfully"
        ELSE /\ response' = 404
             /\ message' = "Patient not found"
             /\ UNCHANGED patients

\* the documents deleted so far: every insert takes the next _id
Deleted == next_id - 1 - Len(patients)

DeletePatient ==
    /\ \E patient_id \in PutIds :
           /\ (patient_id # 0 /\ find_one(patients, ById(patient_id)) # 0)
                  => Deleted < MaxDeletes
           /\ delete_patient(patient_id)
           /\ request' = [op |-> "delete", id |-> patient_id, body |-> <<>>]
    /\ UNCHANGED <<next_id, inserted_during>>
    /\ ApiUnchanged

\* ------------------------------------------ the backend's patient routes
InitApi ==
    /\ NoCalls
    /\ IdleSweep

NextApi ==
    \/ CreatePatient
    \/ BulkCreatePatients
    \/ BulkNotAList
    \/ UpdatePatient
    \/ GetPatient
    \/ DeletePatient

SpecApi == InitApi /\ [][NextApi]_vars

\* ----------------------- the sweep next to the backend's PUT requests
\* the sweep's store calls, all succeeding, and the requests' handlers
\* interleave; each handler's store calls are taken as one step
NextRace ==
    \/ SweepStart
    \/ FetchBatch
    \/ FetchEmpty
    \/ UpdateOne
    \/ UpdatePatient

\* the sweep starts over records that store every scoring field
InitRace ==
    /\ InitSweep
    /\ \A i \in 1..Len(patients) : Complete(patients[i])

SpecRace == InitRace /\ [][NextRace]_vars

\* ------------ the sweep next to the backend's DELETE and create requests
NextChurn ==
    \/ SweepStart
    \/ FetchBatch
    \/ FetchEmpty
    \/ UpdateOne
    \/ DeletePatient
    \/ CreatePatient

SpecChurn == InitRace /\ [][NextChurn]_vars

\* ------------------------------------ repeated calls of calculate_risk_score
\* the attribute dictionaries the repeated calls are made with
DetInputs == CreateRequests \cup BulkItems

ScoreCall_accumulating ==
    /\ \E d \in DetInputs, remember \in BOOLEAN :
           /\ patient_data' = d
           /\ risk_score' =
                  IF calculate_risk_score(d).ok /\ risk_score.ok
                  THEN Ret(min(risk_score.val + calculate_risk_score(d).val, 100))
                  ELSE calculate_risk_score(d)
           /\ earlier' =
                  IF remember /\ risk_score # NotCalled
                  THEN [data |-> <<patient_data>>, score |-> risk_score,
                        between |-> FALSE]
                  ELSE [earlier EXCEPT !.between = (@ \/ earlier.data # <<>>)]
    /\ UNCHANGED <<levelVars, storeVars, response, sweepVars, historyVars,
                   sweep2, apiVars, singleVars, validated, processed, users>>

\* lines 62-108: one more call; the call before it is either remembered in
\* earlier or becomes a call made between earlier and this one
ScoreCall ==
    /\ \E d \in DetInputs, remember \in BOOLEAN :
           /\ patient_data' = d
           /\ risk_score' = calculate_risk_score(d)
           /\ earlier' =
                  IF remember /\ risk_score # NotCalled
                  THEN [data |-> <<patient_data>>, score |-> risk_score,
                        between |-> FALSE]
                  ELSE [earlier EXCEPT !.between = (@ \/ earlier.data # <<>>)]
    /\ UNCHANGED <<levelVars, storeVars, response, sweepVars, historyVars,
                   sweep2, apiVars, singleVars, validated, processed, users>>

InitDet ==
    /\ NoCalls
    /\ IdleSweep

\* the calls are made while POST /create changes the contents of the store
NextDet == ScoreCall \/ CreatePatient

SpecDet == InitDet /\ [][NextDet]_vars

\* ------------------------------------------------- validate_patient_data
\* help_utils/helpers.py carries the same function, line for line
helpers_validate_patient_data(data) == validate_patient_data(data)

\* values on both sides of every limit, a non-numeric value, None, no key
Around(lo, hi) ==
    {Num(lo - 1), Num(lo), Num(hi), Num(hi + 1), Str("high"), NoneNum, AbsentNum}

ValidateInputs ==
    [age : Around(0, 120),
     bmi : Around(10, 80),
     avg_glucose_level : Around(50, 500),
     smoking_status : {Str(x) : x \in ValidSmokingStatus \cup {"sometimes", ""}}
                      \cup {Num(1), NoneStr, AbsentStr},
     hypertension : {AbsentNum}, heart_disease : {AbsentNum},
     gender : {AbsentStr}]

\* the try block returns True or False; comparisons of these values with
\* numbers are guarded by isinstance and do not raise
CallValidate ==
    /\ validated = NotValidated
    /\ validated' = IF helpers_validate_patient_data(patient_data)
                    THEN "True" ELSE "False"
    /\ UNCHANGED <<scorerVars, levelVars, storeVars, response, sweepVars,
                   historyVars, sweep2, apiVars, singleVars, earlier,
                   processed, users>>

InitValidate ==
    /\ patient_data \in ValidateInputs
    /\ risk_score = NotCalled
    /\ level_score = 0 /\ risk_level = NoLevel
    /\ IdleSweep

NextValidate == CallValidate

SpecValidate == InitValidate /\ [][NextValidate]_vars

\* ----------------------------------------------------------- register
MaxUsers == 3

\* str.lower on the characters of the requests
RECURSIVE lower(_)
lower(s) ==
    IF s = "" THEN ""
    ELSE LET Upper == "ABCDEFGHIJKLMNOPQRSTUVWXYZ"
             Lower == "abcdefghijklmnopqrstuvwxyz"
             c == SubSeq(s, 1, 1)
             at == {i \in 1..26 : SubSeq(Upper, i, i) = c}
             l == IF at = {} THEN c
                  ELSE LET i == CHOOSE i \in at : TRUE IN SubSeq(Lower, i, i)
         IN  l \o lower(SubSeq(s, 2, Len(s)))

\* str.strip: without the leading and trailing blanks
RECURSIVE strip(_)
strip(s) ==
    IF s = "" THEN ""
    ELSE IF SubSeq(s, 1, 1) = " " THEN strip(SubSeq(s, 2, Len(s)))
    ELSE IF SubSeq(s, Len(s), Len(s)) = " " THEN strip(SubSeq(s, 1, Len(s) - 1))
    ELSE s

\* helpers.py lines 13-16: the string matches
\* ^[a-zA-Z0-9._%+-]+@[a-zA-Z0-9.-]+\.[a-zA-Z]{2,}$
validate_email(email) ==
    LET letters == "ABCDEFGHIJKLMNOPQRSTUVWXYZabcdefghijklmnopqrstuvwxyz"
        local == letters \o "0123456789._%+-"
        domain == letters \o "0123456789.-"
        CharAt(i) == SubSeq(email, i, i)
        InChars(c, chars) == \E i \in 1..Len(chars) : SubSeq(chars, i, i) = c
    IN  \E at \in 2..Len(email), dot \in 4..Len(email) :
            /\ CharAt(at) = "@"
            /\ CharAt(dot) = "."
            /\ dot > at + 1
            /\ Len(email) - dot >= 2
            /\ \A i \in 1..(at - 1) : InChars(CharAt(i), local)
            /\ \A i \in (at + 1)..(dot - 1) : InChars(CharAt(i), domain)
            /\ \A i \in (dot + 1)..Len(email) : InChars(CharAt(i), letters)

find_by_email_inactive(coll, email) ==
    LET hits == {i \in 1..Len(coll) : coll[i].email = email /\ ~coll[i].is_active}
    IN  IF hits = {} THEN 0 ELSE CHOOSE i \in hits : \A j \in hits : i <= j

\* User.find_by_email: find_one({'email': email, 'is_active': True}); the
\* position of the first match, 0 for None
find_by_email(coll, email) ==
    LET hits == {i \in 1..Len(coll) : coll[i].email = email /\ coll[i].is_active}
    IN  IF hits = {} THEN 0 ELSE CHOOSE i \in hits : \A j \in hits : i <= j

\* bodies of POST /register
RegisterRequests ==
    [email : {Str("admin@hospital.com"), Str(" Admin@Hospital.com "),
              Str("nurse@hospital.com"), Str("NURSE@hospital.com"),
              Str("dr.who@clinic.org"), Str("a+b@x.io "), Str("not-an-email"),
              Str("   "), Str(""), AbsentStr},
     password : {Str("pw"), AbsentStr},
     name : {Str("Ann"), Str("")}]

\* auth/routes.py lines 58-98: POST /register, one request handled from
\* start to end. The users collection has a unique index on email
\* (mongodb_service.py line 39): an insert of a stored email raises, and the
\* handler has no except branch.
register(data) ==
    LET email == lower(strip(data.email.s))
        \* `not data.get(key)`: the key is absent, None or the empty string
        Falsy(x) == x.t # "str" \/ x.s = ""
    IN  IF Falsy(data.email) \/ Falsy(data.password) \/ Falsy(data.name)
        THEN /\ response' = 400
             /\ message' = "Email, password and name required"
             /\ UNCHANGED users
        ELSE IF ~validate_email(email)
        THEN /\ response' = 400
             /\ message' = "Invalid email format"
             /\ UNCHANGED users
        ELSE IF find_by_email(users, email) # 0
        THEN /\ response' = 409
             /\ message' = "User already exists"
             /\ UNCHANGED users
        ELSE IF \E i \in 1..Len(users) : users[i].email = email
        THEN /\ response' = 500
             /\ message' = "exception"
             /\ UNCHANGED users
        ELSE /\ users' = Append(users, [email |-> email, is_active |-> TRUE])
             /\ response' = 201
             /\ message' = "User created successfully"

Register ==
    /\ Len(users) < MaxUsers
    /\ \E data \in RegisterRequests :
           /\ register(data)
           /\ request' = [op |-> "register", id |-> 0, body |-> <<data>>]
    /\ UNCHANGED <<scorerVars, levelVars, storeVars, sweepVars, historyVars,
                   sweep2, singleVars, earlier, validated, processed>>

\* the backend after start-up, serving register requests
SpecAuth == InitApi /\ [][Register]_vars

\* ------------------------------------------------- get_dashboard_stats
\* dashboard/routes.py line 21: count_documents({'risk_score': {'$gte': 70}})
high_risk_patients(coll) ==
    Cardinality({i \in 1..Len(coll) :
                    coll[i].risk_score.t = "num" /\ coll[i].risk_score.v >= 70})

\* dashboard/routes.py lines 35-51: the $group on risk_level, a null or
\* missing level counted as 'Unknown'
risk_distribution(coll) ==
    LET count(level) ==
            Cardinality({i \in 1..Len(coll) :
                            coll[i].risk_level.t = "str" /\ coll[i].risk_level.s = level})
    IN  [High |-> count("High"), Medium |-> count("Medium"), Low |-> count("Low"),
         Unknown |-> Cardinality({i \in 1..Len(coll) :
                                     \/ coll[i].risk_level.t # "str"
                                     \/ coll[i].risk_level.s = ""})]

\* ------------------------------------------------------------------ claims
Called == risk_score # NotCalled

\* C1: for every combination of values of the seven attributes the scorer
\* returns an integer between 0 and 100
C1_ScoreInRange ==
    (Called /\ Complete(patient_data)) =>
        (risk_score.ok /\ risk_score.val >= 0 /\ risk_score.val <= 100)

C1_Witness ==
    /\ Called /\ Complete(patient_data)
    /\ risk_score.ok /\ risk_score.val = 100
    /\ FactorSum(patient_data) = 120

Example(age, hypertension, heart_disease, glucose, bmi, smoking, gender) ==
    [age |-> Num(age), hypertension |-> Num(hypertension),
     heart_disease |-> Num(heart_disease), avg_glucose_level |-> Num(glucose),
     bmi |-> Num(bmi), smoking_status |-> Str(smoking), gender |-> Str(gender)]

\* C2: the score is min(S, 100), S the sum of the point table's buckets, one
\* bucket per factor; the three documented examples give 55, 0 and 100
C2_ScoreIsTable ==
    (Called /\ Complete(patient_data)) =>
        /\ risk_score = Ret(min(TableSumOf(patient_data), 100))
        /\ patient_data = Example(55, 1, 0, 150, 28, "formerly smoked", "Male")
               => risk_score = Ret(55)
        /\ patient_data = Example(25, 0, 0, 90, 22, "never smoked", "Female")
               => risk_score = Ret(0)
        /\ patient_data = Example(80, 1, 1, 300, 40, "smokes", "Male")
               => risk_score = Ret(100)

C2_Witness ==
    /\ Called
    /\ patient_data = Example(55, 1, 0, 150, 28, "formerly smoked", "Male")
    /\ risk_score = Ret(55)

\* C3: with any subset of the scoring fields missing (key absent, or null)
\* the scorer returns a score to which each missing field contributes 0
C3_PartialInputScores ==
    Called => risk_score = Ret(min(TableSumOf(patient_data), 100))

LevelCalled == risk_level # NoLevel

\* C4: the batch classifier returns High exactly for scores >= 50, Medium
\* exactly for 25..49, Low exactly below 25, and nothing else
C4_PolicyB ==
    LevelCalled =>
        /\ risk_level \in {"High", "Medium", "Low"}
        /\ (risk_level = "High") <=> (level_score >= 50)
        /\ (risk_level = "Medium") <=> (level_score >= 25 /\ level_score <= 49)
        /\ (risk_level = "Low") <=> (level_score < 25)

C4_Witness == LevelCalled /\ level_score = 25 /\ risk_level = "Medium"

Returned == outcome.returned

NoStoreFailures == ~count_failed /\ ~fetch_failed /\ update_failed = {}

NullBmi(p) == p.bmi.t \in {"none", "absent"}

\* the number M of records whose bmi is null
NullBmiCount == Cardinality({i \in 1..Len(patients) : NullBmi(patients[i])})

\* every record with a bmi also has an age and an avg_glucose_level
OthersHaveRequired ==
    \A i \in 1..Len(patients) :
        NullBmi(patients[i]) \/
            (patients[i].age.t = "num" /\ patients[i].avg_glucose_level.t = "num")

\* C5: over N records, M of them with a null bmi and the others with all
\* required fields, without store failures: skipped = M and updated = N - M
C5_SkippedAndUpdated ==
    (Returned /\ NoStoreFailures /\ OthersHaveRequired) =>
        /\ outcome.skipped = NullBmiCount
        /\ outcome.updated = Len(patients) - NullBmiCount

C5_Witness ==
    /\ Returned /\ NoStoreFailures /\ OthersHaveRequired
    /\ NullBmiCount >= 1
    /\ Len(patients) - NullBmiCount >= 1
    /\ Len(patients) > batch_size
    /\ outcome.skipped = NullBmiCount

\* a record the sweep dealt with: skipped for a missing field, or scored and
\* written with its score and level
Processed(p) ==
    \/ p._id \in skipped /\ MissingRequired(p)
    \/ /\ p._id \in written
       /\ p.risk_score = Num(SweepScore(p).val)
       /\ p.risk_level = Str(_determine_risk_level(SweepScore(p).val))

\* C6: when the update call fails for exactly one record the outcome has
\* errors = 1 and every other record, of that batch and of the later ones,
\* is processed
C6_FaultIsolation ==
    (Returned /\ ~count_failed /\ ~fetch_failed /\ Cardinality(update_failed) = 1) =>
        /\ outcome.errors = 1
        /\ \A i \in 1..Len(patients) :
               patients[i]._id \in update_failed \/ Processed(patients[i])

C6_Witness ==
    /\ Returned /\ ~fetch_failed /\ Cardinality(update_failed) = 1
    /\ outcome.errors = 1
    /\ batch_size = 2
    /\ Len(patients) = 3
    /\ patients[1]._id \in update_failed
    /\ patients[2]._id \in written
    /\ patients[3]._id \in written

OutcomeKeys ==
    {"returned", "total_patients", "updated", "skipped", "errors", "success_rate"}

\* C7: over a finite unmodified record set, for any batch size and any
\* pattern of failures, the sweep terminates and returns an outcome carrying
\* total_patients, updated, skipped, errors and success_rate
C7_SweepTerminates ==
    <>(pc = "done" /\ Returned /\ DOMAIN outcome = OutcomeKeys)

C7_Witness ==
    /\ pc = "done" /\ Returned /\ DOMAIN outcome = OutcomeKeys
    /\ update_failed # {} /\ written # {} /\ skipped # {}

\* C8: a batch fetch that fails after the sweep has started does not abort
\* it: the returned outcome still reports the records already updated and
\* skipped
C8_FetchFailureIsolated ==
    (Returned /\ fetch_failed) =>
        /\ outcome.updated = updated_count
        /\ outcome.skipped = skipped_count

\* C9: when the total-count query fails the sweep returns exactly
\* {total_patients: 0, updated: 0, skipped: 0, errors: 1, success_rate: 0}
\* and no patient record is modified
C9_UnreachableStore ==
    count_failed =>
        /\ Returned
        /\ outcome.total_patients = 0 /\ outcome.updated = 0
        /\ outcome.skipped = 0 /\ outcome.errors = 1
        /\ outcome.success_rate.num = 0
        /\ written = {}
        /\ \A i \in 1..Len(patients) :
               patients[i].risk_score = AbsentNum /\ patients[i].risk_level = AbsentStr

C9_Witness == count_failed /\ Returned /\ Len(patients) >= 1 /\ pc = "done"

\* success_rate as a fraction equals updated / total_patients * 100
RateIsFormula ==
    /\ outcome.total_patients > 0 =>
           outcome.success_rate.num * outcome.total_patients
               = outcome.updated * 100 * outcome.success_rate.den
    /\ outcome.total_patients = 0 => outcome.success_rate.num = 0
    /\ outcome.success_rate.den > 0

RateAtLeast0 == outcome.success_rate.num >= 0
RateAtMost100 == outcome.success_rate.num <= 100 * outcome.success_rate.den

\* C10 as stated: success_rate is updated / total_patients * 100, 0 for an
\* empty collection, and lies between 0 and 100 in every returned outcome
C10_RateAsClaimed ==
    Returned => (RateIsFormula /\ RateAtLeast0 /\ RateAtMost100)

\* C10 as amended: success_rate is updated / total_patients * 100, 0 for an
\* empty collection, never negative, and at most 100 in every outcome of a
\* sweep during which no record was inserted
C10_RateBounded ==
    Returned =>
        /\ RateIsFormula
        /\ RateAtLeast0
        /\ ~inserted_during => RateAtMost100

C10_Witness ==
    /\ Returned /\ ~inserted_during /\ NoStoreFailures
    /\ outcome.total_patients = 3 /\ outcome.updated = 2
    /\ outcome.success_rate = [num |-> 200, den |-> 3]

\* what one sweep alone leaves in a record: the risk fields of its pending
\* update, or the record untouched when it is skipped
SingleSweepLeaves(p) ==
    IF MissingRequired(p) THEN p
    ELSE [p EXCEPT !.risk_score = PendingUpdate(p).risk_score,
                   !.risk_level = PendingUpdate(p).risk_level]

BothSweepsDone == pc = "done" /\ sweep2.pc = "done"

\* C11: two sweeps running concurrently over the same store, under every
\* interleaving of their fetches and updates, leave every record either sweep
\* wrote with the risk_score and risk_level a single sweep leaves, never touch
\* a skipped record, and once both have ended without a store failure every
\* non-skipped record has been written
C11_TwoSweepsAgree ==
    \A i \in 1..Len(patients) :
        /\ patients[i]._id \in written => patients[i] = SingleSweepLeaves(patients[i])
        /\ patients[i]._id \notin written =>
               patients[i].risk_score = AbsentNum /\ patients[i].risk_level = AbsentStr
        /\ MissingRequired(patients[i]) => patients[i]._id \notin written
        /\ (BothSweepsDone /\ NoStoreFailures /\ ~MissingRequired(patients[i]))
               => patients[i]._id \in written

C11_Witness ==
    /\ BothSweepsDone /\ NoStoreFailures
    /\ Cardinality(written) >= 2
    /\ skipped # {}
    /\ outcome.updated >= 2 /\ sweep2.outcome.updated >= 2
    /\ batch_size # sweep2.batch_size
    /\ C11_TwoSweepsAgree

SingleWrote == single_log.kind \in {"Updated risk score", "No changes made"}

\* C12: for a stored record whose age, avg_glucose_level and bmi are present,
\* update_single_patient_risk_score leaves the risk_score and risk_level that
\* update_all_patients_risk_scores writes for the same record, whatever its
\* gender, smoking_status, hypertension and heart_disease
C12_SingleMatchesSweep ==
    SingleWrote =>
        LET d == patients[find_one(patients, single_log.key)]
        IN  /\ d.risk_score = PendingUpdate(d).risk_score
            /\ d.risk_level = PendingUpdate(d).risk_level

\* the record a key designates before the call, as the claim reads it
Designates(key, p) ==
    \/ key.by = "_id" /\ p._id = key.id
    \/ key.by = "patient_id" /\ p.patient_id = key.pid

NullFields(p) ==
    {f \in {"age", "avg_glucose_level", "bmi"} : p[f].t \in {"none", "absent"}}

StoreCallsSucceeded == single_log'.kind # "Error updating risk score"

SingleSignals ==
    LET key == single_log'.key
        hit == {i \in 1..Len(patients) : Designates(key, patients[i])}
    IN  /\ hit = {} =>
              /\ single_log'.kind = "Patient not found"
              /\ single_return' = ReturnNone
              /\ patients' = patients
        /\ \A i \in hit :
              /\ NullFields(patients[i]) # {} =>
                    /\ single_log'.kind = "Missing required fields"
                    /\ single_log'.fields = NullFields(patients[i])
                    /\ single_return' = ReturnNone
                    /\ patients' = patients
              /\ NullFields(patients[i]) = {} =>
                    /\ single_return' = ReturnDoc(patients'[i])
                    /\ patients'[i].risk_score.t = "num"
                    /\ patients'[i].risk_level.t = "str"
                    /\ \A j \in 1..Len(patients) : j # i => patients'[j] = patients[j]

AttributesOf(d) == [k \in ScoringFields |-> d[k]]

PolicyA(score) ==
    IF score >= 50 THEN "High"
    ELSE IF score >= 30 /\ score < 50 THEN "Medium"
    ELSE "Low"

Created ==
    /\ request'.op = "create"
    /\ response' = 201
    /\ Len(patients') = Len(patients) + 1

\* C14: the record a successful POST /create stores carries the request's
\* sanitized attributes, risk_score = calculate_risk_score of them, and the
\* risk_level of Policy A: High from 50, Medium from 30 to 49, else Low
C14_CreateScored ==
    [][Created =>
          LET d == patients'[Len(patients')]
          IN  /\ SubSeq(patients', 1, Len(patients)) = patients
              /\ AttributesOf(d) = Sanitized(request'.body[1])
              /\ d.risk_score = Num(calculate_risk_score(AttributesOf(d)).val)
              /\ d.risk_level = Str(PolicyA(d.risk_score.v))]_vars

C14_Witness ==
    /\ request.op = "create" /\ response = 201
    /\ patients # <<>>
    /\ patients[Len(patients)].risk_score = Num(25)
    /\ patients[Len(patients)].risk_level = Str("Low")
    /\ AttributesOf(patients[Len(patients)]) = Sanitized(request.body[1])

PolicyB(score) ==
    IF score >= 50 THEN "High"
    ELSE IF score >= 25 /\ score < 50 THEN "Medium"
    ELSE "Low"

PolicyC(score) ==
    IF score >= 60 THEN "High"
    ELSE IF score >= 40 /\ score < 60 THEN "Medium"
    ELSE "Low"

BulkStored == request'.op = "bulk" /\ Len(patients') > Len(patients)

\* C15 as stated: every record POST /bulk stores has the risk_level of
\* Policy B (High from 50, Medium from 25 to 49, else Low)
C15_BulkPolicyB ==
    [][BulkStored =>
          \A i \in (Len(patients) + 1)..Len(patients') :
              patients'[i].risk_level = Str(PolicyB(patients'[i].risk_score.v))]_vars

\* C15 amended: every record POST /bulk stores has risk_score =
\* calculate_risk_score of its attributes and the risk_level of Policy C:
\* High from 60, Medium from 40 to 59, else Low
C15_BulkPolicyC ==
    [][BulkStored =>
          \A i \in (Len(patients) + 1)..Len(patients') :
              /\ patients'[i].risk_score =
                     Num(calculate_risk_score(AttributesOf(patients'[i])).val)
              /\ patients'[i].risk_level = Str(PolicyC(patients'[i].risk_score.v))]_vars

C15_Witness ==
    /\ request.op = "bulk" /\ response = 201
    /\ \E i \in 1..Len(patients) :
           /\ AttributesOf(patients[i]) \in {request.body[j] : j \in 1..Len(request.body)}
           /\ patients[i].risk_score = Num(55)
           /\ patients[i].risk_level = Str("Medium")
    /\ \E i \in 1..Len(patients) :
           /\ patients[i].risk_score = Num(30)
           /\ patients[i].risk_level = Str("Low")

InRange(x, lo, hi) == x.t = "num" /\ x.v >= lo /\ x.v <= hi

\* a create request the claim says is rejected: a required field is omitted
\* or a value is outside the validator's ranges
MustBeRejected(data) ==
    \/ \E f \in {"gender", "age", "avg_glucose_level", "bmi", "smoking_status"} :
           data[f].t = "absent"
    \/ ~InRange(data.age, 0, 120)
    \/ ~InRange(data.bmi, 10, 80)
    \/ ~InRange(data.avg_glucose_level, 50, 500)
    \/ ~(/\ Sanitized(data).smoking_status.t = "str"
         /\ Sanitized(data).smoking_status.s \in
                {"never smoked", "formerly smoked", "smokes", "Unknown"})

\* C18: POST /create answers 400 and inserts nothing, the stored records are
\* unchanged, for every request that omits gender, age, avg_glucose_level,
\* bmi or smoking_status or whose values fail validation (e.g. age 150)
C18_CreateRejects ==
    [][(request'.op = "create" /\ MustBeRejected(request'.body[1]))
          => (response' = 400 /\ patients' = patients /\ next_id' = next_id)]_vars

C18_Witness ==
    /\ request.op = "create" /\ response = 400
    /\ request.body[1].age = Num(150)
    /\ message = "Invalid patient data"
    /\ patients # <<>>

\* every value the body carries is in the validator's range
PresentValuesValid(data) ==
    /\ data.age.t = "absent" \/ InRange(data.age, 0, 120)
    /\ data.bmi.t = "absent" \/ InRange(data.bmi, 10, 80)
    /\ data.avg_glucose_level.t = "absent" \/ InRange(data.avg_glucose_level, 50, 500)
    /\ data.smoking_status.t = "absent"
       \/ (/\ data.smoking_status.t = "str"
           /\ data.smoking_status.s \in
                  {"never smoked", "formerly smoked", "smokes", "Unknown"})

\* C19: a PUT on an existing patient whose body carries valid values for
\* only some of the fields (e.g. age and bmi) answers 200 with the message
\* 'Patient updated successfully'
C19_PartialUpdateAccepted ==
    [][(/\ request'.op = "update"
        /\ \E i \in 1..Len(patients) : patients[i]._id = request'.id
        /\ PresentValuesValid(request'.body[1]))
          => (response' = 200 /\ message' = "Patient updated successfully")]_vars

\* the score of the same attributes at another age
ScoreAtAge(b) == calculate_risk_score([patient_data EXCEPT !.age = Num(b)])

\* C16: with every other attribute held fixed, calculate_risk_score is
\* non-decreasing in age: a call that returns a score for some age returns
\* at least that score for every greater age, in particular across
\* 49 -> 50, 59 -> 60 and 69 -> 70
C16_MonotoneInAge ==
    (Called /\ risk_score.ok /\ patient_data.age.t = "num") =>
        \A b \in AgeValues :
            b >= patient_data.age.v =>
                ScoreAtAge(b).ok /\ ScoreAtAge(b).val >= risk_score.val

C16_Witness ==
    /\ Called /\ risk_score = Ret(35)
    /\ patient_data.age = Num(49)
    /\ ScoreAtAge(50) = Ret(45)
    /\ ScoreAtAge(59) = Ret(45)
    /\ ScoreAtAge(60) = Ret(55)
    /\ ScoreAtAge(69) = Ret(55)
    /\ ScoreAtAge(70) = Ret(65)

ValidSmoking(x) ==
    x.t = "str" /\ x.s \in {"never smoked", "formerly smoked", "smokes", "Unknown"}

\* C20 as stated: validate_patient_data returns True exactly when age is a
\* number in [0, 120], bmi a number in [10, 80], avg_glucose_level a number
\* in [50, 500] and smoking_status one of the four values
C20_ValidExactly ==
    validated # NotValidated =>
        /\ validated \in {"True", "False"}
        /\ validated = "True" <=>
               /\ InRange(patient_data.age, 0, 120)
               /\ InRange(patient_data.bmi, 10, 80)
               /\ InRange(patient_data.avg_glucose_level, 50, 500)
               /\ ValidSmoking(patient_data.smoking_status)

\* C20 amended: it returns True exactly when age is absent or a number in
\* [0, 120], bmi a number in [10, 80], avg_glucose_level a number in
\* [50, 500] and smoking_status one of the four values; otherwise, for
\* out-of-range, non-numeric or null values, it returns False and never raises
C20_ValidOrAgeAbsent ==
    validated # NotValidated =>
        /\ validated \in {"True", "False"}
        /\ validated = "True" <=>
               /\ patient_data.age.t = "absent" \/ InRange(patient_data.age, 0, 120)
               /\ InRange(patient_data.bmi, 10, 80)
               /\ InRange(patient_data.avg_glucose_level, 50, 500)
               /\ ValidSmoking(patient_data.smoking_status)

C20_Witness ==
    /\ validated = "True"
    /\ patient_data.age = AbsentNum
    /\ patient_data.bmi = Num(10)
    /\ patient_data.avg_glucose_level = Num(500)
    /\ patient_data.smoking_status = Str("Unknown")

\* C21: a get, update or delete request whose patient id matches no stored
\* record, well-formed or not, is answered 404 and leaves the store as it was
C21_AbsentIdIs404 ==
    [][(/\ request'.op \in {"get", "update", "delete"}
        /\ ~\E i \in 1..Len(patients) : patients[i]._id = request'.id)
          => (response' = 404 /\ patients' = patients)]_vars


\* the email of a register request as the handler compares it
RequestEmail == lower(strip(request'.body[1].email.s))

\* the field is there and not empty
Given(x) == x.t = "str" /\ x.s # ""

StoredEmails == {users[i].email : i \in 1..Len(users)}

\* C22 as stated: a register request whose trimmed, lower-cased email is
\* the email of a stored user is answered 409 and the stored users are
\* unchanged
C22_DuplicateIs409 ==
    [][(/\ request'.op = "register"
        /\ request'.body[1].email.t = "str"
        /\ RequestEmail \in StoredEmails)
          => (response' = 409 /\ users' = users)]_vars

\* C22: a register request that carries a non-empty password and name and
\* whose trimmed, lower-cased email is the email of a stored user is
\* answered 409 'User already exists'; a request with such an email never
\* changes the stored users, whatever else it carries
C22_CompleteDuplicateIs409 ==
    [][(/\ request'.op = "register"
        /\ request'.body[1].email.t = "str"
        /\ RequestEmail \in StoredEmails)
          => /\ users' = users
             /\ (Given(request'.body[1].password) /\ Given(request'.body[1].name))
                    => (response' = 409 /\ message' = "User already exists")]_vars

C22_Witness ==
    /\ request.op = "register"
    /\ request.body[1].email = Str("NURSE@hospital.com")
    /\ request.body[1].password = Str("pw")
    /\ request.body[1].name = Str("Ann")
    /\ response = 409
    /\ users = <<DefaultUsers[1], [email |-> "nurse@hospital.com", is_active |-> TRUE]>>


\* the records the sweep has fetched, and those whose pending update has
\* been issued
Fetched == {i \in DOMAIN processed : processed[i] > 0}
Issued == written \cup update_failed

\* C23: in a sweep over a store nobody else modifies no record is fetched
\* twice, whatever the record count and the batch size; when the sweep
\* returns without a failed count or fetch every record has been fetched
\* exactly once; and whenever a batch is about to be fetched the updates
\* of every batch fetched before have been issued
C23_EachRecordOnce ==
    /\ \A i \in DOMAIN processed : processed[i] <= 1
    /\ (Returned /\ ~count_failed /\ ~fetch_failed) =>
           \A i \in DOMAIN processed : processed[i] = 1
    /\ pc = "fetch" =>
           /\ batch_updates = <<>>
           /\ \A i \in 1..Len(patients) :
                  (patients[i]._id \in Fetched /\ IsScored(patients[i]))
                      => patients[i]._id \in Issued
    /\ pc \in {"fetch", "update"} => Fetched = 1..Cardinality(Fetched)

C23_Witness ==
    /\ Returned /\ ~count_failed /\ ~fetch_failed
    /\ Len(patients) = 2 /\ batch_size = 2
    /\ \A i \in DOMAIN processed : processed[i] = 1
    /\ written = {1, 2}


\* the score of spec 4.1 for the attributes a document stores, an absent
\* field contributing nothing
StoredScore(d) == min(TableSumOf(d), 100)

\* the record's risk fields are those of its stored attributes
ScoredAsStored(d) ==
    /\ d.risk_score = Num(StoredScore(d))
    /\ d.risk_level = Str(PolicyB(StoredScore(d)))

\* C24: once a sweep has returned without a store failure every record with
\* age, avg_glucose_level and bmi present carries the score of its stored
\* attributes and the Policy B level of that score, and from then on the
\* steps of another sweep change neither field on any record
C24_SweepScoresStored ==
    /\ []((Returned /\ NoStoreFailures) =>
             \A i \in 1..Len(patients) :
                 ~MissingRequired(patients[i]) => ScoredAsStored(patients[i]))
    /\ [][(Returned /\ NoStoreFailures) =>
             \A i \in 1..Len(patients) :
                 /\ patients'[i].risk_score = patients[i].risk_score
                 /\ patients'[i].risk_level = patients[i].risk_level]_vars


\* C25: a step of the sweep keeps the number of records and, on every
\* record, the _id, the patient_id and the clinical attributes: it changes
\* risk_score and risk_level at most. A record skipped for a missing field
\* is left entirely unchanged, no update call is issued for it, and the
\* errors counter counts failed update calls only.
C25_SweepFrame ==
    /\ [][/\ Len(patients') = Len(patients)
          /\ \A i \in 1..Len(patients) :
                 /\ patients'[i]._id = patients[i]._id
                 /\ patients'[i].patient_id = patients[i].patient_id
                 /\ AttributesOf(patients'[i]) = AttributesOf(patients[i])
                 /\ MissingRequired(patients[i]) => patients'[i] = patients[i]]_vars
    /\ [](/\ skipped \cap Issued = {}
          /\ \A i \in 1..Len(patients) :
                 patients[i]._id \in skipped => MissingRequired(patients[i])
          /\ error_count = Cardinality(update_failed))

C25_Witness ==
    /\ Returned /\ ~count_failed /\ ~fetch_failed
    /\ \E i, j \in 1..Len(patients) :
           /\ patients[i]._id \in skipped
           /\ patients[i].risk_score = AbsentNum /\ patients[i].risk_level = AbsentStr
           /\ patients[j]._id \in written
           /\ patients[j].risk_score = Num(100) /\ patients[j].risk_level = Str("High")
           /\ AttributesOf(patients[j]).age = Num(80)
    /\ skipped_count = 1 /\ error_count = 0


\* C26: a sweep over a store of unchanged membership that returns after
\* counting and fetching without failure reports updated + skipped + errors
\* = total_patients, whatever update calls failed: a record whose update
\* call failed is counted in errors and not in updated
C26_CountersAddUp ==
    (Returned /\ ~count_failed /\ ~fetch_failed) =>
        /\ outcome.updated + outcome.skipped + outcome.errors = outcome.total_patients
        /\ outcome.updated = Cardinality(written)
        /\ outcome.errors = Cardinality(update_failed)


\* the stored record a PUT request addressed
Addressed == {i \in 1..Len(patients) : patients[i]._id = request.id}

\* C27: with a sweep and PUT requests interleaved step by step, once the
\* sweep has returned and a PUT that changed a patient's clinical
\* attributes has been answered 200, the stored risk_score of that patient
\* is calculate_risk_score of its stored attributes
C27_NoStaleScore ==
    (Returned /\ request.op = "update" /\ response = 200) =>
        \A i \in Addressed :
            (Complete(AttributesOf(patients[i])) /\ HasScoringKey(request.body[1]))
                => patients[i].risk_score =
                       Num(calculate_risk_score(AttributesOf(patients[i])).val)


\* the records stored when the sweep was started and still stored
Survivors == {i \in DOMAIN processed : \E j \in 1..Len(patients) : patients[j]._id = i}

\* C28: with patients deleted and created by other requests between the
\* batch fetches of a sweep, every record stored from before the sweep's
\* first step until after its last has been fetched and processed by it
\* exactly once when it returns
C28_SurvivorsOnce ==
    /\ \A i \in DOMAIN processed : processed[i] <= 1
    /\ Returned => \A i \in Survivors : processed[i] = 1


StoredPatientIds == {patients[i].patient_id : i \in 1..Len(patients)}

\* a create request the handler takes as far as the insert
CreateAccepted(data) ==
    /\ ~MissingCreateField(data)
    /\ validate_patient_data(Sanitized(data))
    /\ calculate_risk_score(Sanitized(data)).ok

\* the entries of a bulk request the handler takes as far as the insert
BulkAccepted(data) ==
    {k \in 1..Len(data) : ~MissingBulkField(data[k]) /\ calculate_risk_score(data[k]).ok}

\* C29: after any sequence of create, bulk and delete requests the
\* patient_id generated for a new record, PT and the record count plus one,
\* is the patient_id of no stored record: no insert fails on the unique
\* index, so every accepted create is answered 201 and every accepted bulk
\* entry is stored, and no two stored records share a patient_id
C29_FreshPatientId ==
    [][/\ (request'.op = "create" /\ CreateAccepted(request'.body[1])) =>
              /\ format_patient_id(Len(patients) + 1) \notin StoredPatientIds
              /\ response' = 201
       /\ request'.op = "bulk" =>
              Len(patients') = Len(patients) + Cardinality(BulkAccepted(request'.body))
       /\ \A i, j \in 1..Len(patients') :
              patients'[i].patient_id = patients'[j].patient_id => i = j]_vars


\* C30: in every state of the patient store the dashboard's
\* high_risk_patients figure equals risk_distribution['High']
C30_HighRiskFiguresAgree ==
    high_risk_patients(patients) = risk_distribution(patients).High

====
